---- MODULE Spec2Model ----
(***************************************************************************)
(* Membership directory and username reconciliation of the gossip chat     *)
(* client (client.go, message.go, main.go, gui.go).                        *)
(*                                                                         *)
(* One local process is modelled in full.  The gossip substrate (smudge)   *)
(* is the environment: it raises membership events, delivers inbound       *)
(* broadcasts and accepts or refuses outbound broadcasts.                  *)
(***************************************************************************)
EXTENDS Integers, Sequences, FiniteSets, TLC

\* ------------------------------------------------------------------ bounds

\* Number of distinct smudge.Node handles the substrate may hand out for one
\* transport address (a peer that leaves and comes back is a new *Node).
MaxNodeId == 2

\* ------------------------------------------------------------- value sets

\* Transport addresses ("ip:port").  LocalAddr is the value cacheLocalIP
\* computes for this process.
LocalAddr == "C"
Addr == {"A", "B", "C"}

\* The zero value of a Go string: an unset NodeAddress or username.
NoAddr == ""

\* The -username flag of this process (required to be non-empty by main).
localUsername == "carol"

\* Usernames that can be carried by a username list on the wire.
Names == {"", "bob", "carol"}

NodeIds == 1..MaxNodeId

\* *smudge.Node handles; Address() of a handle is its address field.
Nodes == [address : Addr, id : NodeIds]

\* The nil *smudge.Node.
NilNode == [address |-> NoAddr, id |-> 0]

\* ------------------------------------------------------------ Go map helpers

\* make(map[NodeAddress]...) : the empty map.
EmptyMap == [a \in {} |-> ""]

\* m[k] = v
MapPut(m, k, v) == [a \in (DOMAIN m) \cup {k} |-> IF a = k THEN v ELSE m[a]]

\* delete(m, k)
MapDelete(m, k) == [a \in (DOMAIN m) \ {k} |-> m[a]]

\* ----------------------------------------------------------------- state

VARIABLES
    clientList,    \* ClientList: map[NodeAddress]ChatClient
    localAddress,  \* the global localAddress ("" until cacheLocalIP ran)
    mainPc,        \* position of main(): "begin", "cached", "gui"
    tickPc,        \* position of FillMissingInfo's loop body: "wait", "found"
    addrMissing,   \* FillMissingInfo's local addrMissing
    crashed,       \* the process died of an unrecovered panic
    last,          \* the handler that ran last, its inputs and its effects
    net,           \* broadcasts in flight between this process and a peer
    threads,       \* which goroutines are inside a range loop over the map
    peer           \* the process of a peer that runs this same program: its
                   \* client list and the position of its FillMissingInfo loop

vars == <<clientList, localAddress, mainPc, tickPc, addrMissing, crashed, last, net, threads, peer>>

\* queued: a gui.Update callback of printClientList waits in the gui's queue;
\* render: the gui's main loop is inside that callback's range over the list;
\* scan: FillMissingInfo is inside GetMissingUsername's range over the list.
NoThreads == [queued |-> FALSE, render |-> FALSE, scan |-> FALSE]

\* The peer's process where the specification does not follow it.
NoPeer == [clientList |-> EmptyMap, tickPc |-> "wait", addrMissing |-> NoAddr]

\* ChatClient{node: node} with the zero username.
ChatClient(node, username) == [node |-> node, username |-> username]

\* The zero value ChatClient{}, returned by a lookup of an absent key.
ZeroClient == ChatClient(NilNode, "")

\* ------------------------------------------------------ client.go (pure)

\* AddClient without the "is it us" test: the username of the local node is
\* left unset.
AddClient_NoLocal(cl, node, la) == MapPut(cl, node.address, ChatClient(node, ""))

\* AddClient that keeps the username of a client it already lists.
AddClient_KeepName(cl, node, la) ==
    LET a == node.address
        newClient == ChatClient(node, IF a = la THEN localUsername
                                      ELSE IF a \in DOMAIN cl THEN cl[a].username ELSE "")
    IN  MapPut(cl, a, newClient)

\* AddClient: the list after cl.AddClient(node), with la the value of the
\* global localAddress at the call.
AddClient(cl, node, la) ==
    LET newClient == ChatClient(node, IF node.address = la THEN localUsername ELSE "")
    IN  MapPut(cl, node.address, newClient)

\* RemoveClient with the delete moved inside the username test: a client whose
\* username is unknown is not removed.
RemoveClient_Known(cl, node) ==
    IF node.address \in DOMAIN cl /\ cl[node.address].username # ""
    THEN MapDelete(cl, node.address) ELSE cl

\* RemoveClient: the list after cl.RemoveClient(node).
RemoveClient(cl, node) ==
    IF node.address \in DOMAIN cl THEN MapDelete(cl, node.address) ELSE cl

\* The loop body without the exists test: an unknown address is stored with
\* the zero client's node.
AddUsername_Insert(cl, addr, username) ==
    MapPut(cl, addr,
           ChatClient(IF addr \in DOMAIN cl THEN cl[addr].node ELSE NilNode, username))

\* The loop body that only fills in a missing username and keeps a known one.
AddUsername_FillOnly(cl, addr, username) ==
    IF addr \in DOMAIN cl /\ cl[addr].username = ""
    THEN MapPut(cl, addr, [cl[addr] EXCEPT !.username = username])
    ELSE cl

\* The loop body that takes an empty username for "not known" and skips it.
AddUsername_NoEmpty(cl, addr, username) ==
    IF addr \in DOMAIN cl /\ username # ""
    THEN MapPut(cl, addr, [cl[addr] EXCEPT !.username = username])
    ELSE cl

\* The body of AddUsernames' range loop for one (addr, username) pair.
AddUsername(cl, addr, username) ==
    IF addr \in DOMAIN cl
    THEN MapPut(cl, addr, [cl[addr] EXCEPT !.username = username])
    ELSE cl

\* The range loop of AddUsernames over the keys still to visit.
RECURSIVE AddUsernamesLoop(_, _, _)
AddUsernamesLoop(cl, usernames, todo) ==
    IF todo = {} THEN cl
    ELSE LET addr == CHOOSE a \in todo : TRUE
         IN  AddUsernamesLoop(AddUsername(cl, addr, usernames[addr]),
                              usernames, todo \ {addr})

\* AddUsernames that merges the received list into the client list.
AddUsernames_Merge(cl, usernames) ==
    [a \in (DOMAIN cl) \cup (DOMAIN usernames) |->
        IF a \in DOMAIN usernames
        THEN ChatClient(IF a \in DOMAIN cl THEN cl[a].node ELSE NilNode, usernames[a])
        ELSE cl[a]]

\* AddUsernames that takes the received list for the whole truth: the
\* username of a client the list does not name is cleared.
AddUsernames_Snapshot(cl, usernames) ==
    [a \in DOMAIN cl |->
        [cl[a] EXCEPT !.username = IF a \in DOMAIN usernames THEN usernames[a] ELSE ""]]

\* AddUsernames: the list after cl.AddUsernames(usernames).  A nil map ranges
\* over nothing, like the empty map.
AddUsernames(cl, usernames) == AddUsernamesLoop(cl, usernames, DOMAIN usernames)

\* AddUsernames that returns an error for a list without entries.
AddUsernamesErr_Empty(cl, usernames) == DOMAIN usernames = {}

\* The error AddUsernames returns: always nil.
AddUsernamesErr(cl, usernames) == FALSE

\* getUsernameMap without "Don't forget to add ourselves!".
getUsernameMap_NoSelf(cl, la, lu) ==
    [a \in {b \in DOMAIN cl : cl[b].username # ""} |-> cl[a].username]

\* getUsernameMap: known usernames of cl plus usernames[localAddress] =
\* localUsername, with la and lu the values of the globals localAddress and
\* localUsername of the process that makes the call.
getUsernameMap(cl, la, lu) ==
    LET known == {a \in DOMAIN cl : cl[a].username # ""}
    IN  [a \in known \cup {la} |-> IF a = la THEN lu ELSE cl[a].username]

\* GetMissingUsername with the test inverted: it returns a client whose
\* username is known.
GetMissingUsername_Known(cl) ==
    LET known == {a \in DOMAIN cl : cl[a].username # ""}
    IN  IF known = {} THEN {[addr |-> NoAddr, ok |-> FALSE]}
        ELSE {[addr |-> a, ok |-> TRUE] : a \in known}

\* GetMissingUsername: the (address, ok) pairs the range loop can return; the
\* iteration order of a Go map is unspecified, so every incomplete entry can be
\* the first one met.
GetMissingUsername(cl) ==
    LET missing == {a \in DOMAIN cl : cl[a].username = ""}
    IN  IF missing = {} THEN {[addr |-> NoAddr, ok |-> FALSE]}
        ELSE {[addr |-> a, ok |-> TRUE] : a \in missing}

\* GetName that answers with the address also when the username is known.
GetName_AddressOnly(c) ==
    IF c.node = NilNode THEN [panic |-> TRUE, name |-> ""]
    ELSE [panic |-> FALSE, name |-> c.node.address]

\* GetName: the result of c.GetName(); c.node.Address() on the nil node of a
\* zero ChatClient dereferences nil and panics.
GetName(c) ==
    IF c.username # "" THEN [panic |-> FALSE, name |-> c.username]
    ELSE IF c.node = NilNode THEN [panic |-> TRUE, name |-> ""]
    ELSE [panic |-> FALSE, name |-> c.node.address]

\* ------------------------------------------------------ message.go (pure)

messageTypeChat == 1
messageTypeUsernames == 2
messageTypeUsernameReq == 3

\* Go strings that are message bodies are sequences of tokens: a character of
\* chat text, or a whole transport address.
Space == " "

\* string(addr) for a NodeAddress.
StringOf(addr) == IF addr = NoAddr THEN <<>> ELSE <<addr>>

\* message{Type, Body, Usernames}; nilmap tells the nil map from the empty one.
Message(type, body, usernames, nilmap) ==
    [Type |-> type, Body |-> body, Usernames |-> usernames, nilmap |-> nilmap]

\* var msg message
ZeroMessage == Message(0, <<>>, EmptyMap, TRUE)

\* A byte of a Go string that is not valid UTF-8, the replacement character
\* U+FFFD, and the characters "<" and its JSON escape.
Invalid == "\\xff"
Replacement == "U+FFFD"
Lt == "<"
LtEscaped == "\\u003c"

\* The JSON text of a Go string, as json.Encoder writes it: invalid UTF-8 is
\* coerced to U+FFFD, and "<" is escaped (HTML escaping is on by default).
QuoteToken(t) == IF t = Invalid THEN Replacement ELSE IF t = Lt THEN LtEscaped ELSE t
Quote(body) == [i \in 1..Len(body) |-> QuoteToken(body[i])]

\* An unquote that leaves escapes as they are.
Unquote_Raw(text) == text

\* The Go string of a JSON string, as json.Decoder reads it.
Unquote(text) == [i \in 1..Len(text) |-> IF text[i] = LtEscaped THEN Lt ELSE text[i]]

\* json.Encoder.Encode(m): the JSON object with the keys "type", "body" and
\* "usernames" (null for a nil map).
Marshal(m) ==
    [Type |-> m.Type, Body |-> Quote(m.Body),
     Usernames |-> [a \in DOMAIN m.Usernames |-> QuoteToken(m.Usernames[a])],
     nilmap |-> m.nilmap]

\* json.Decoder.Decode(m) into the zero message.
Unmarshal(j) ==
    [Type |-> j.Type, Body |-> Unquote(j.Body),
     Usernames |-> [a \in DOMAIN j.Usernames |-> Unquote(<<j.Usernames[a]>>)[1]],
     nilmap |-> j.nilmap]

\* Bytes on the wire: a zlib stream (header, deflate body, Adler-32 checksum)
\* around JSON text.  hdr: the zlib header is valid; stream: the deflate body
\* inflates; wf: the JSON text is well formed and fits the message struct; sum:
\* the checksum at the end matches; obj: the JSON object.
Bytes(hdr, stream, wf, obj) ==
    [hdr |-> hdr, stream |-> stream, wf |-> wf, sum |-> TRUE, obj |-> obj]

\* Bytes whose checksum was damaged on the way.
BadSum(data) == [data EXCEPT !.sum = FALSE]

\* message.Encode: JSON text of m written through a zlib writer that is closed.
\* Both errors are only logged; marshalling this struct and writing to a
\* bytes.Buffer do not fail.
Encode(m) == Bytes(TRUE, TRUE, TRUE, Marshal(m))

\* message.Decode: "" on success, else which step failed.  zlib.NewReader reads
\* the header; a deflate body that does not inflate shows up only while the
\* JSON decoder reads, as does malformed JSON.  The JSON decoder returns as
\* soon as the object is complete and scans what a Read returned before it
\* looks at that Read's error, so the checksum (data.sum) is never acted on.
Decode(data) ==
    IF ~data.hdr THEN [err |-> "decompress", msg |-> ZeroMessage]
    ELSE IF ~data.stream \/ ~data.wf THEN [err |-> "decode", msg |-> ZeroMessage]
    ELSE [err |-> "", msg |-> Unmarshal(data.obj)]

\* strings.TrimSpace on a token sequence.
RECURSIVE TrimLeft(_)
TrimLeft(s) == IF s # <<>> /\ Head(s) = Space THEN TrimLeft(Tail(s)) ELSE s

RECURSIVE TrimRight(_)
TrimRight(s) ==
    IF s # <<>> /\ s[Len(s)] = Space THEN TrimRight(SubSeq(s, 1, Len(s) - 1)) ELSE s

\* A TrimSpace that trims nothing.
TrimSpace_Identity(s) == s

TrimSpace(s) == TrimRight(TrimLeft(s))

\* ------------------------------------------------------------ inputs

\* Username lists a peer can put on the wire.
Batches == UNION {[S -> Names] : S \in SUBSET Addr}

ChatText == <<"h", "i">>

\* Messages the environment can broadcast to this process.
InboundMessages ==
    {Message(messageTypeUsernames, <<>>, m, FALSE) : m \in Batches}
    \cup {Message(messageTypeUsernames, <<>>, EmptyMap, TRUE)}
    \cup {Message(messageTypeUsernameReq, StringOf(a), EmptyMap, TRUE) : a \in Addr \cup {NoAddr}}
    \cup {Message(t, ChatText, EmptyMap, TRUE) : t \in {0, messageTypeChat}}
    \cup {Message(t, b, [a \in {"A"} |-> "bob"], FALSE) :
            t \in {messageTypeChat, messageTypeUsernameReq}, b \in {ChatText, <<LocalAddr>>}}
    \cup {Message(messageTypeUsernames, ChatText, [a \in {"A"} |-> "bob"], FALSE)}
    \cup {Message(messageTypeUsernameReq + 1, <<LocalAddr>>, [a \in {"A"} |-> "bob"], FALSE)}

\* Byte strings the substrate can deliver: encoded messages and damaged ones
\* (garbage, and messages of a peer damaged on the way).
InboundBytes ==
    {Encode(m) : m \in InboundMessages}
    \cup {Bytes(FALSE, TRUE, TRUE, ZeroMessage),
          Bytes(TRUE, FALSE, TRUE, ZeroMessage),
          Bytes(TRUE, TRUE, FALSE, ZeroMessage)}
    \cup {Bytes(FALSE, TRUE, TRUE, Marshal(Message(messageTypeUsernames, <<>>, [a \in {"A"} |-> "bob"], FALSE))),
          Bytes(TRUE, FALSE, TRUE, Marshal(Message(messageTypeUsernameReq, <<LocalAddr>>, EmptyMap, TRUE))),
          Bytes(TRUE, TRUE, FALSE, Marshal(Message(messageTypeChat, ChatText, EmptyMap, TRUE))),
          BadSum(Encode(Message(messageTypeUsernames, <<>>, [a \in {"A"} |-> "bob"], FALSE)))}

\* Text the user can enter.
UserTexts == {<<>>, <<Space, Space>>, <<Space, "h", "i", Space>>, <<"h", Space, "i">>}

\* ------------------------------------------------------------ history

NoLast ==
    [op |-> "none", node |-> NilNode, alive |-> FALSE, origin |-> NoAddr,
     data |-> Bytes(FALSE, FALSE, FALSE, ZeroMessage), text |-> <<>>,
     usernames |-> EmptyMap, nilmap |-> FALSE,
     pre |-> EmptyMap, err |-> FALSE, decodeErr |-> "", refresh |-> 0,
     sent |-> <<>>, lines |-> <<>>, applied |-> <<>>,
     ret |-> EmptyMap, addr |-> NoAddr, ok |-> FALSE,
     client |-> ZeroClient, name |-> "", order |-> <<>>,
     notify |-> 0, shown |-> EmptyMap, msg |-> ZeroMessage, out |-> ZeroMessage]

\* -------------------------------------------------------------- actions

\* printClientList(cl): the redraws it queues with gui.Update; it returns at
\* once while the gui does not exist yet (gui == nil).  A handler's record
\* holds the number of its calls of printClientList (notify), the list passed
\* (shown) and the redraws queued (refresh).
printClientList == IF mainPc = "gui" THEN 1 ELSE 0

Init ==
    /\ clientList = EmptyMap
    /\ localAddress = NoAddr
    /\ mainPc = "begin"
    /\ tickPc = "wait"
    /\ addrMissing = NoAddr
    /\ crashed = FALSE
    /\ last = NoLast
    /\ net = {}
    /\ threads = NoThreads
    /\ peer = NoPeer

\* No handler is between its effect and its return: the next one can be entered.
Idle == ~crashed /\ last = NoLast

\* The handler that ran last returns to its caller (the substrate's callback
\* loops, the ticker loop, the gui's key binding); its record is dropped.
Return ==
    /\ ~crashed
    /\ last # NoLast
    /\ last' = NoLast
    /\ UNCHANGED <<clientList, localAddress, mainPc, tickPc, addrMissing, crashed>>

\* An unrecovered panic in a handler: the process dies where it stands.
Panic(record) ==
    /\ crashed' = TRUE
    /\ last' = record
    /\ UNCHANGED <<clientList, localAddress, mainPc, tickPc, addrMissing>>

\* OnChange that redraws the roster before it updates the list.
OnChange_RefreshFirst(node, alive) ==
    /\ Idle
    /\ clientList' = IF alive THEN AddClient(clientList, node, localAddress)
                     ELSE RemoveClient(clientList, node)
    /\ last' = [NoLast EXCEPT !.op = "OnChange", !.node = node, !.alive = alive,
                              !.pre = clientList, !.refresh = printClientList,
                              !.notify = 1, !.shown = clientList]
    /\ UNCHANGED <<localAddress, mainPc, tickPc, addrMissing, crashed>>

\* ClientList.OnChange(node, status): a membership event of the substrate.
OnChange(node, alive) ==
    /\ Idle
    /\ clientList' = IF alive THEN AddClient(clientList, node, localAddress)
                     ELSE RemoveClient(clientList, node)
    /\ last' = [NoLast EXCEPT !.op = "OnChange", !.node = node, !.alive = alive,
                              !.pre = clientList, !.refresh = printClientList,
                              !.notify = 1, !.shown = clientList']
    /\ UNCHANGED <<localAddress, mainPc, tickPc, addrMissing, crashed>>

\* cacheLocalIP() and the start of the FillMissingInfo goroutine.
CacheLocalIP ==
    /\ Idle
    /\ mainPc = "begin"
    /\ localAddress' = LocalAddr
    /\ mainPc' = "cached"
    /\ last' = [NoLast EXCEPT !.op = "cacheLocalIP", !.pre = clientList]
    /\ UNCHANGED <<clientList, tickPc, addrMissing, crashed>>

\* runGUI(clientList): the gui exists from here on; the roster is drawn once.
RunGUI ==
    /\ Idle
    /\ mainPc = "cached"
    /\ mainPc' = "gui"
    /\ last' = [NoLast EXCEPT !.op = "runGUI", !.pre = clientList, !.refresh = 1,
                              !.notify = 1, !.shown = clientList]
    /\ UNCHANGED <<clientList, localAddress, tickPc, addrMissing, crashed>>

\* The usernames case that passes on what it has learnt: after applying the
\* list it broadcasts its own username map.
OnUsernames_Gossip(rec, msg) ==
    IF msg.nilmap \/ Cardinality(DOMAIN msg.Usernames) = 0
    THEN /\ last' = rec
         /\ UNCHANGED <<clientList, localAddress, mainPc, tickPc, addrMissing, crashed>>
    ELSE /\ clientList' = AddUsernames(clientList, msg.Usernames)
         /\ last' = [rec EXCEPT !.applied = <<msg.Usernames>>,
                                !.err = AddUsernamesErr(clientList, msg.Usernames),
                                !.refresh = printClientList,
                                !.notify = 1, !.shown = clientList',
                                !.sent = <<[data |-> Encode(Message(messageTypeUsernames, <<>>,
                                                getUsernameMap(clientList', localAddress,
                                                               localUsername), FALSE)),
                                            ok |-> TRUE]>>]
         /\ UNCHANGED <<localAddress, mainPc, tickPc, addrMissing, crashed>>

\* The request case that answers with the usernames stored in the client list
\* and nothing else.
OnUsernameReq_ListOnly(rec, msg, ok) ==
    /\ last' = IF msg.Body = StringOf(localAddress)
               THEN [rec EXCEPT !.sent =
                       <<[data |-> Encode(Message(messageTypeUsernames, <<>>,
                                          [a \in {b \in DOMAIN clientList :
                                                     clientList[b].username # ""} |->
                                              clientList[a].username], FALSE)),
                          ok |-> ok]>>]
               ELSE rec
    /\ UNCHANGED <<clientList, localAddress, mainPc, tickPc, addrMissing, crashed>>

\* The usernames case without the nil-or-empty test.
OnUsernames_NoGuard(rec, msg) ==
    /\ clientList' = AddUsernames(clientList, msg.Usernames)
    /\ last' = [rec EXCEPT !.applied = <<msg.Usernames>>,
                           !.err = AddUsernamesErr(clientList, msg.Usernames),
                           !.refresh = printClientList]
    /\ UNCHANGED <<localAddress, mainPc, tickPc, addrMissing, crashed>>

\* Messenger.OnBroadcast, case messageTypeUsernames.
OnUsernames(rec, msg) ==
    IF msg.nilmap \/ Cardinality(DOMAIN msg.Usernames) = 0
    THEN /\ last' = rec
         /\ UNCHANGED <<clientList, localAddress, mainPc, tickPc, addrMissing, crashed>>
    ELSE /\ clientList' = AddUsernames(clientList, msg.Usernames)
         /\ last' = [rec EXCEPT !.applied = <<msg.Usernames>>,
                                !.err = AddUsernamesErr(clientList, msg.Usernames),
                                !.refresh = printClientList,
                                !.notify = 1, !.shown = clientList']
         /\ UNCHANGED <<localAddress, mainPc, tickPc, addrMissing, crashed>>

\* The request case that answers nobody.
OnUsernameReq_Silent(rec, msg, ok) ==
    /\ last' = rec
    /\ UNCHANGED <<clientList, localAddress, mainPc, tickPc, addrMissing, crashed>>

\* The request case without the comparison with localAddress: every request
\* is answered.
OnUsernameReq_Always(rec, msg, ok) ==
    /\ last' = [rec EXCEPT !.sent =
                  <<[data |-> Encode(Message(messageTypeUsernames, <<>>,
                                     getUsernameMap(clientList, localAddress, localUsername), FALSE)),
                     ok |-> ok]>>]
    /\ UNCHANGED <<clientList, localAddress, mainPc, tickPc, addrMissing, crashed>>

\* Messenger.OnBroadcast, case messageTypeUsernameReq; BroadcastUsernames when
\* the request names this process.  ok: smudge.BroadcastBytes returned nil.
OnUsernameReq(rec, msg, ok) ==
    /\ last' = IF msg.Body = StringOf(localAddress)
               THEN [rec EXCEPT !.sent =
                       <<[data |-> Encode(Message(messageTypeUsernames, <<>>,
                                          getUsernameMap(clientList, localAddress, localUsername), FALSE)),
                          ok |-> ok]>>]
               ELSE rec
    /\ UNCHANGED <<clientList, localAddress, mainPc, tickPc, addrMissing, crashed>>

\* The chat case that also takes in the usernames a message carries.
OnChat_AlsoNames(rec, msg, origin) ==
    LET sender == IF origin \in DOMAIN clientList THEN clientList[origin] ELSE ZeroClient
        name == GetName(sender)
    IN  IF name.panic \/ mainPc # "gui"
        THEN Panic([rec EXCEPT !.op = "panic"])
        ELSE /\ last' = [rec EXCEPT !.lines = <<[text |-> msg.Body, sender |-> name.name]>>]
             /\ clientList' = AddUsernames(clientList, msg.Usernames)
             /\ UNCHANGED <<localAddress, mainPc, tickPc, addrMissing, crashed>>

\* Messenger.OnBroadcast, case messageTypeChat.  The lookup of an unknown
\* sender yields the zero ChatClient; printChatMessage needs the gui.
OnChat(rec, msg, origin) ==
    LET sender == IF origin \in DOMAIN clientList THEN clientList[origin] ELSE ZeroClient
        name == GetName(sender)
    IN  IF name.panic \/ mainPc # "gui"
        THEN Panic([rec EXCEPT !.op = "panic"])
        ELSE /\ last' = [rec EXCEPT !.lines = <<[text |-> msg.Body, sender |-> name.name]>>]
             /\ UNCHANGED <<clientList, localAddress, mainPc, tickPc, addrMissing, crashed>>

\* OnBroadcast whose switch ends in a default case that shows the message as a
\* chat message.
OnBroadcast_DefaultChat(origin, data, ok) ==
    LET d == Decode(data)
        rec == [NoLast EXCEPT !.op = "OnBroadcast", !.origin = origin, !.data = data,
                              !.pre = clientList, !.decodeErr = d.err]
    IN  /\ Idle
        /\ IF d.err # ""
           THEN /\ last' = rec
                /\ UNCHANGED <<clientList, localAddress, mainPc, tickPc, addrMissing, crashed>>
           ELSE CASE d.msg.Type = messageTypeUsernames -> OnUsernames(rec, d.msg)
                  [] d.msg.Type = messageTypeUsernameReq -> OnUsernameReq(rec, d.msg, ok)
                  [] OTHER -> OnChat(rec, d.msg, origin)

\* OnBroadcast without the return after a failed Decode: what the bytes were
\* meant to carry is dispatched.
OnBroadcast_NoDecodeCheck(origin, data, ok) ==
    LET rec == [NoLast EXCEPT !.op = "OnBroadcast", !.origin = origin, !.data = data,
                              !.pre = clientList, !.decodeErr = Decode(data).err]
    IN  /\ Idle
        /\ CASE data.obj.Type = messageTypeUsernames -> OnUsernames(rec, Unmarshal(data.obj))
             [] data.obj.Type = messageTypeUsernameReq -> OnUsernameReq(rec, Unmarshal(data.obj), ok)
             [] data.obj.Type = messageTypeChat -> OnChat(rec, Unmarshal(data.obj), origin)
             [] OTHER -> /\ last' = rec
                         /\ UNCHANGED <<clientList, localAddress, mainPc, tickPc,
                                        addrMissing, crashed>>

\* Messenger.OnBroadcast(b): b.Origin().Address() = origin, b.Bytes() = data.
OnBroadcast(origin, data, ok) ==
    LET d == Decode(data)
        rec == [NoLast EXCEPT !.op = "OnBroadcast", !.origin = origin, !.data = data,
                              !.pre = clientList, !.decodeErr = d.err]
    IN  /\ Idle
        /\ IF d.err # ""
           THEN /\ last' = rec
                /\ UNCHANGED <<clientList, localAddress, mainPc, tickPc, addrMissing, crashed>>
           ELSE CASE d.msg.Type = messageTypeUsernames -> OnUsernames(rec, d.msg)
                  [] d.msg.Type = messageTypeUsernameReq -> OnUsernameReq(rec, d.msg, ok)
                  [] d.msg.Type = messageTypeChat -> OnChat(rec, d.msg, origin)
                  [] OTHER -> /\ last' = rec
                              /\ UNCHANGED <<clientList, localAddress, mainPc, tickPc,
                                             addrMissing, crashed>>

\* FillMissingInfo, one tick, first half: cl.GetMissingUsername().
TickFind ==
    /\ Idle
    /\ mainPc # "begin"
    /\ tickPc = "wait"
    /\ \E r \in GetMissingUsername(clientList) :
         /\ addrMissing' = r.addr
         /\ tickPc' = IF r.ok THEN "found" ELSE "wait"
         /\ last' = [NoLast EXCEPT !.op = "GetMissingUsername", !.pre = clientList,
                                   !.addr = r.addr, !.ok = r.ok]
    /\ UNCHANGED <<clientList, localAddress, mainPc, crashed>>

\* A tick whose failed broadcast ends the loop of FillMissingInfo.
TickRequest_StopOnError(ok) ==
    /\ Idle
    /\ tickPc = "found"
    /\ tickPc' = IF ok THEN "wait" ELSE "stopped"
    /\ addrMissing' = NoAddr
    /\ last' = [NoLast EXCEPT !.op = "RequestUsernameList", !.pre = clientList,
                              !.addr = addrMissing, !.err = ~ok,
                              !.sent = <<[data |-> Encode(Message(messageTypeUsernameReq,
                                                     StringOf(addrMissing), EmptyMap, TRUE)),
                                          ok |-> ok]>>]
    /\ UNCHANGED <<clientList, localAddress, mainPc, crashed>>

\* RequestUsernameList that leaves the Body of the request empty.
TickRequest_NoBody(ok) ==
    /\ Idle
    /\ tickPc = "found"
    /\ tickPc' = "wait"
    /\ addrMissing' = NoAddr
    /\ last' = [NoLast EXCEPT !.op = "RequestUsernameList", !.pre = clientList,
                              !.addr = addrMissing, !.err = ~ok,
                              !.sent = <<[data |-> Encode(Message(messageTypeUsernameReq,
                                                     <<>>, EmptyMap, TRUE)),
                                          ok |-> ok]>>]
    /\ UNCHANGED <<clientList, localAddress, mainPc, crashed>>

\* RequestUsernameList that looks the address up again and stays silent when
\* the entry has been removed or completed since GetMissingUsername returned.
TickRequest_Recheck(ok) ==
    /\ Idle
    /\ tickPc = "found"
    /\ tickPc' = "wait"
    /\ addrMissing' = NoAddr
    /\ last' = [NoLast EXCEPT !.op = "RequestUsernameList", !.pre = clientList,
                              !.addr = addrMissing,
                              !.err = (~ok /\ addrMissing \in DOMAIN clientList),
                              !.sent = IF /\ addrMissing \in DOMAIN clientList
                                          /\ clientList[addrMissing].username = ""
                                       THEN <<[data |-> Encode(Message(messageTypeUsernameReq,
                                                       StringOf(addrMissing), EmptyMap, TRUE)),
                                               ok |-> ok]>>
                                       ELSE <<>>]
    /\ UNCHANGED <<clientList, localAddress, mainPc, crashed>>

\* FillMissingInfo, one tick, second half: cl.RequestUsernameList(addrMissing).
\* ok: smudge.BroadcastBytes returned nil; a failure is only logged.
TickRequest(ok) ==
    /\ Idle
    /\ tickPc = "found"
    /\ tickPc' = "wait"
    /\ addrMissing' = NoAddr
    /\ last' = [NoLast EXCEPT !.op = "RequestUsernameList", !.pre = clientList,
                              !.addr = addrMissing, !.err = ~ok,
                              !.sent = <<[data |-> Encode(Message(messageTypeUsernameReq,
                                                     StringOf(addrMissing), EmptyMap, TRUE)),
                                          ok |-> ok]>>]
    /\ UNCHANGED <<clientList, localAddress, mainPc, crashed>>

\* SendMessage that broadcasts first and shows the message only when the
\* broadcast succeeded.
SendMessage_BroadcastFirst(text, ok) ==
    LET trimmed == TrimSpace(text)
        rec == [NoLast EXCEPT !.op = "SendMessage", !.text = text, !.pre = clientList]
        bytes == Encode(Message(messageTypeChat, trimmed, EmptyMap, TRUE))
    IN  /\ Idle
        /\ mainPc = "gui"
        /\ last' = IF trimmed = <<>> THEN rec
                   ELSE IF ok
                   THEN [rec EXCEPT !.lines = <<[text |-> trimmed, sender |-> localUsername]>>,
                                    !.sent = <<[data |-> bytes, ok |-> ok]>>,
                                    !.order = <<"BroadcastBytes", "printChatMessage">>]
                   ELSE [rec EXCEPT !.sent = <<[data |-> bytes, ok |-> ok]>>,
                                    !.order = <<"BroadcastBytes">>,
                                    !.err = TRUE]
        /\ UNCHANGED <<clientList, localAddress, mainPc, tickPc, addrMissing, crashed>>

\* SendMessage that logs a failed broadcast and returns nil.
SendMessage_Swallow(text, ok) ==
    LET trimmed == TrimSpace(text)
        rec == [NoLast EXCEPT !.op = "SendMessage", !.text = text, !.pre = clientList]
    IN  /\ Idle
        /\ mainPc = "gui"
        /\ last' = IF trimmed = <<>> THEN rec
                   ELSE [rec EXCEPT !.lines = <<[text |-> trimmed, sender |-> localUsername]>>,
                                    !.sent = <<[data |-> Encode(Message(messageTypeChat, trimmed,
                                                                        EmptyMap, TRUE)),
                                                ok |-> ok]>>,
                                    !.order = <<"printChatMessage", "BroadcastBytes">>]
        /\ UNCHANGED <<clientList, localAddress, mainPc, tickPc, addrMissing, crashed>>

\* SendMessage(text), called by the gui's Enter key binding (readGuiMsg, which
\* does not look at the error SendMessage returns).  err is that return value.
SendMessage(text, ok) ==
    LET trimmed == TrimSpace(text)
        rec == [NoLast EXCEPT !.op = "SendMessage", !.text = text, !.pre = clientList]
    IN  /\ Idle
        /\ mainPc = "gui"
        /\ last' = IF trimmed = <<>> THEN rec
                   ELSE [rec EXCEPT !.lines = <<[text |-> trimmed, sender |-> localUsername]>>,
                                    !.sent = <<[data |-> Encode(Message(messageTypeChat, trimmed,
                                                                        EmptyMap, TRUE)),
                                                ok |-> ok]>>,
                                    !.order = <<"printChatMessage", "BroadcastBytes">>,
                                    !.err = ~ok]
        /\ UNCHANGED <<clientList, localAddress, mainPc, tickPc, addrMissing, crashed>>

\* Broadcasts delivered to this process; the origin is read by the chat case
\* and by the decode-error log only.
Inbound ==
    {[origin |-> o, data |-> d] : o \in Addr,
        d \in {x \in InboundBytes : Decode(x).msg.Type = messageTypeChat /\ Decode(x).err = ""}}
    \cup {[origin |-> "A", data |-> d] : d \in InboundBytes}

\* The handlers of this process; the substrate's peers are the environment.
Next ==
    \/ \E node \in Nodes, alive \in BOOLEAN : OnChange(node, alive) /\ UNCHANGED <<net, threads, peer>>
    \/ CacheLocalIP /\ UNCHANGED <<net, threads, peer>>
    \/ RunGUI /\ UNCHANGED <<net, threads, peer>>
    \/ \E b \in Inbound, ok \in BOOLEAN : OnBroadcast(b.origin, b.data, ok) /\ UNCHANGED <<net, threads, peer>>
    \/ TickFind /\ UNCHANGED <<net, threads, peer>>
    \/ \E ok \in BOOLEAN : TickRequest(ok) /\ UNCHANGED <<net, threads, peer>>
    \/ \E text \in UserTexts, ok \in BOOLEAN : SendMessage(text, ok) /\ UNCHANGED <<net, threads, peer>>
    \/ Return /\ UNCHANGED <<net, threads, peer>>

Spec == Init /\ [][Next]_vars

\* ------------------------------------------------- direct calls (client_test.go)

\* The client lists a process can hold: every key maps to a client whose node
\* has that address.
ClientLists ==
    UNION {[S -> [node : Nodes, username : Names]] : S \in SUBSET Addr}

WellKeyed(cl) == \A a \in DOMAIN cl : cl[a].node.address = a

\* A test case: a client list and the globals, set before the call.
UnitInit ==
    /\ clientList \in {cl \in ClientLists : WellKeyed(cl)}
    /\ localAddress \in {NoAddr, LocalAddr}
    /\ mainPc = "begin"
    /\ tickPc = "wait"
    /\ addrMissing = NoAddr
    /\ crashed = FALSE
    /\ last = NoLast
    /\ net = {}
    /\ threads = NoThreads
    /\ peer = NoPeer

\* c.clientList.AddClient(c.nodeToAdd)
CallAddClient(node) ==
    /\ Idle
    /\ clientList' = AddClient(clientList, node, localAddress)
    /\ last' = [NoLast EXCEPT !.op = "AddClient", !.node = node, !.pre = clientList]
    /\ UNCHANGED <<localAddress, mainPc, tickPc, addrMissing, crashed>>

\* c.clientList.RemoveClient(testNode)
CallRemoveClient(node) ==
    /\ Idle
    /\ clientList' = RemoveClient(clientList, node)
    /\ last' = [NoLast EXCEPT !.op = "RemoveClient", !.node = node, !.pre = clientList]
    /\ UNCHANGED <<localAddress, mainPc, tickPc, addrMissing, crashed>>

\* err := c.clientList.AddUsernames(c.usernames)
CallAddUsernames(usernames, nilmap) ==
    /\ Idle
    /\ clientList' = AddUsernames(clientList, usernames)
    /\ last' = [NoLast EXCEPT !.op = "AddUsernames", !.usernames = usernames,
                              !.nilmap = nilmap, !.pre = clientList,
                              !.err = AddUsernamesErr(clientList, usernames),
                              !.refresh = printClientList,
                              !.notify = 1, !.shown = clientList']
    /\ UNCHANGED <<localAddress, mainPc, tickPc, addrMissing, crashed>>

\* usernameMap := c.clientList.getUsernameMap()
CallGetUsernameMap ==
    /\ Idle
    /\ last' = [NoLast EXCEPT !.op = "getUsernameMap", !.pre = clientList,
                              !.ret = getUsernameMap(clientList, localAddress, localUsername)]
    /\ UNCHANGED <<clientList, localAddress, mainPc, tickPc, addrMissing, crashed>>

\* resultAddr, resultBool := c.clientList.GetMissingUsername()
CallGetMissingUsername ==
    /\ Idle
    /\ \E r \in GetMissingUsername(clientList) :
         last' = [NoLast EXCEPT !.op = "GetMissingUsername", !.pre = clientList,
                                !.addr = r.addr, !.ok = r.ok]
    /\ UNCHANGED <<clientList, localAddress, mainPc, tickPc, addrMissing, crashed>>

\* result := c.client.GetName(), for a client of the list or the zero client
\* that the lookup of an absent key yields.
CallGetName(c) ==
    LET r == GetName(c)
        rec == [NoLast EXCEPT !.op = "GetName", !.client = c, !.pre = clientList,
                              !.name = r.name]
    IN  /\ Idle
        /\ IF r.panic
           THEN Panic([rec EXCEPT !.op = "panic"])
           ELSE /\ last' = rec
                /\ UNCHANGED <<clientList, localAddress, mainPc, tickPc, addrMissing, crashed>>

UnitNext ==
    \/ \E node \in Nodes : CallAddClient(node) /\ UNCHANGED <<net, threads, peer>>
    \/ \E node \in Nodes : CallRemoveClient(node) /\ UNCHANGED <<net, threads, peer>>
    \/ \E usernames \in Batches : CallAddUsernames(usernames, FALSE) /\ UNCHANGED <<net, threads, peer>>
    \/ CallAddUsernames(EmptyMap, TRUE) /\ UNCHANGED <<net, threads, peer>>
    \/ CallGetUsernameMap /\ UNCHANGED <<net, threads, peer>>
    \/ CallGetMissingUsername /\ UNCHANGED <<net, threads, peer>>
    \/ \E c \in {clientList[a] : a \in DOMAIN clientList} \cup {ZeroClient} :
          CallGetName(c) /\ UNCHANGED <<net, threads, peer>>
    \/ Return /\ UNCHANGED <<net, threads, peer>>

UnitSpec == UnitInit /\ [][UnitNext]_vars

\* ------------------------------------------ direct calls of the codec

\* Chat text, also with a character JSON escapes and with a byte that is not
\* valid UTF-8.
Bodies ==
    {<<>>} \cup {<<t>> : t \in {"h", Space, Lt, Invalid}}
    \cup {<<t, u>> : t \in {"h", Lt, Invalid}, u \in {"h", Space, Lt, Invalid}}

\* Username maps: nil, empty, and with usernames of each sort.
Mappings ==
    {[nilmap |-> TRUE, map |-> EmptyMap], [nilmap |-> FALSE, map |-> EmptyMap]}
    \cup {[nilmap |-> FALSE, map |-> [a \in {"A"} |-> n]] : n \in {"bob", Lt, Invalid}}
    \cup {[nilmap |-> FALSE, map |-> [a \in {"A", "C"} |-> IF a = "A" THEN "" ELSE "carol"]]}

\* The messages a process can build.
Envelopes ==
    {Message(t, b, u.map, u.nilmap) :
        t \in {messageTypeChat, messageTypeUsernames, messageTypeUsernameReq},
        b \in Bodies, u \in Mappings}

\* Byte strings handed to Decode: what Encode produced, possibly damaged on
\* the way, and garbage.
WireBytes ==
    LET good == {Encode(Message(messageTypeChat, <<"h">>, EmptyMap, TRUE)),
                 Encode(Message(messageTypeUsernames, <<>>, [a \in {"A"} |-> "bob"], FALSE))}
    IN  good
        \cup {BadSum(d) : d \in good}
        \cup {[d EXCEPT !.hdr = FALSE] : d \in good}
        \cup {[d EXCEPT !.stream = FALSE] : d \in good}
        \cup {[d EXCEPT !.wf = FALSE] : d \in good}
        \cup {[d EXCEPT !.stream = FALSE, !.wf = FALSE] : d \in good}

CodecInit ==
    /\ clientList = EmptyMap
    /\ localAddress = NoAddr
    /\ mainPc = "begin"
    /\ tickPc = "wait"
    /\ addrMissing = NoAddr
    /\ crashed = FALSE
    /\ last = NoLast
    /\ net = {}
    /\ threads = NoThreads
    /\ peer = NoPeer

\* data := m.Encode(); var out message; err := out.Decode(data)
CallRoundTrip(m) ==
    LET data == Encode(m)
        d == Decode(data)
    IN  /\ Idle
        /\ last' = [NoLast EXCEPT !.op = "RoundTrip", !.msg = m, !.data = data,
                                  !.decodeErr = d.err, !.out = d.msg]
        /\ UNCHANGED <<clientList, localAddress, mainPc, tickPc, addrMissing, crashed>>

\* var out message; err := out.Decode(data)
CallDecode(data) ==
    LET d == Decode(data)
    IN  /\ Idle
        /\ last' = [NoLast EXCEPT !.op = "Decode", !.data = data,
                                  !.decodeErr = d.err, !.out = d.msg]
        /\ UNCHANGED <<clientList, localAddress, mainPc, tickPc, addrMissing, crashed>>

CodecNext ==
    \/ \E m \in Envelopes : CallRoundTrip(m) /\ UNCHANGED <<net, threads, peer>>
    \/ \E data \in WireBytes : CallDecode(data) /\ UNCHANGED <<net, threads, peer>>
    \/ Return /\ UNCHANGED <<net, threads, peer>>

CodecSpec == CodecInit /\ [][CodecNext]_vars

\* --------------------------------------- reconciliation with a peer (fair)

\* A peer T that runs this same program, stays reachable and answers, and a
\* peer U whose owner never answers a username request.
PeerT == "A"
PeerU == "B"

\* The -username flag of T's process.
peerUsername == "bob"

\* The client lists T can hold when a request reaches it: T itself, this
\* process with or without its username, and U, whose username nobody has been
\* told.
PeerLists ==
    {cl \in ClientLists :
        /\ WellKeyed(cl)
        /\ \A a \in DOMAIN cl : cl[a].node.id = 1
        /\ PeerT \in DOMAIN cl /\ cl[PeerT].username = peerUsername
        /\ LocalAddr \in DOMAIN cl => cl[LocalAddr].username \in {"", localUsername}
        /\ PeerU \in DOMAIN cl => cl[PeerU].username = ""}

\* Messenger.OnBroadcast in T's process for the bytes data, T's client list
\* being cl: the broadcasts T makes.  T answers a username request that names
\* T's localAddress with its getUsernameMap; everything else T receives from
\* this process makes no broadcast.
PeerOnBroadcast(cl, data) ==
    LET d == Decode(data)
    IN  IF d.err = "" /\ d.msg.Type = messageTypeUsernameReq /\ d.msg.Body = StringOf(PeerT)
        THEN {Encode(Message(messageTypeUsernames, <<>>,
                             getUsernameMap(cl, PeerT, peerUsername), FALSE))}
        ELSE {}

\* The process is up (localAddress cached, gui running); T is listed without a
\* username, U may be, and this process may be.
FairInit ==
    /\ clientList \in {cl \in ClientLists :
                          /\ WellKeyed(cl)
                          /\ \A a \in DOMAIN cl : cl[a].node.id = 1
                          /\ PeerT \in DOMAIN cl /\ cl[PeerT].username = ""
                          /\ PeerU \in DOMAIN cl => cl[PeerU].username = ""
                          /\ LocalAddr \in DOMAIN cl => cl[LocalAddr].username = localUsername}
    /\ localAddress = LocalAddr
    /\ mainPc = "gui"
    /\ tickPc = "wait"
    /\ addrMissing = NoAddr
    /\ crashed = FALSE
    /\ last = NoLast
    /\ net = {}
    /\ threads = NoThreads
    /\ peer = NoPeer

FairTickFind == TickFind /\ UNCHANGED <<net, threads, peer>>

\* The request is broadcast; its copy for T is in flight.
FairTickRequest ==
    /\ TickRequest(TRUE)
    /\ net' = net \cup {[to |-> PeerT, data |-> last'.sent[1].data]}
    /\ UNCHANGED <<threads, peer>>

\* T's substrate delivers a broadcast of this process to T's OnBroadcast; T's
\* answer, if any, is in flight to this process.
PeerReceive(m) ==
    \E cl \in PeerLists :
        /\ m \in net
        /\ m.to = PeerT
        /\ net' = (net \ {m}) \cup {[to |-> LocalAddr, data |-> x] : x \in PeerOnBroadcast(cl, m.data)}
        /\ UNCHANGED <<clientList, localAddress, mainPc, tickPc, addrMissing, crashed, last, threads, peer>>

\* The substrate delivers T's broadcast to this process.
FairOnBroadcast(m) ==
    /\ m \in net
    /\ m.to = LocalAddr
    /\ OnBroadcast(PeerT, m.data, TRUE)
    /\ net' = net \ {m}
    /\ UNCHANGED <<threads, peer>>

\* What can be in flight: a username request of this process on its way to T,
\* and an answer of T on its way back.
InFlight ==
    {[to |-> PeerT, data |-> Encode(Message(messageTypeUsernameReq, StringOf(a), EmptyMap, TRUE))] : a \in Addr}
    \cup {[to |-> LocalAddr, data |-> x] :
            x \in UNION {PeerOnBroadcast(cl, Encode(Message(messageTypeUsernameReq, StringOf(PeerT), EmptyMap, TRUE))) : cl \in PeerLists}}

FairReturn == Return /\ UNCHANGED <<net, threads, peer>>

\* No membership event occurs: T stays reachable, and so does whoever else
\* is listed.
FairNext ==
    \/ FairTickFind
    \/ FairTickRequest
    \/ \E m \in InFlight : PeerReceive(m)
    \/ \E m \in InFlight : FairOnBroadcast(m)
    \/ FairReturn

\* The ticker fires every 15 seconds for the life of the process, the substrate
\* delivers each message that is in flight and T handles it, and a handler that was entered
\* returns.  A handler can be entered whenever no other one is between its effect
\* and its return, which is the case again and again: hence strong fairness.
\* Which entry GetMissingUsername meets first is not a matter of scheduling:
\* the iteration order of a Go map is unspecified, so no fairness is stated for
\* that choice.
FairSpec ==
    /\ FairInit
    /\ [][FairNext]_vars
    /\ SF_vars(FairTickFind)
    /\ SF_vars(FairTickRequest)
    /\ \A m \in InFlight : SF_vars(PeerReceive(m))
    /\ \A m \in InFlight : SF_vars(FairOnBroadcast(m))
    /\ SF_vars(FairReturn)

\* ------------------------------------------- two processes left to themselves

\* The client list of the process at address self, which lists itself under
\* its own username and the process at address other with or without that
\* one's username.
QuietLists(self, name, other, otherName) ==
    {cl \in ClientLists :
        /\ WellKeyed(cl)
        /\ DOMAIN cl = {self, other}
        /\ \A a \in DOMAIN cl : cl[a].node.id = 1
        /\ cl[self].username = name
        /\ cl[other].username \in {"", otherName}}

\* This process and T are up and list each other; nothing is in flight.
QuietInit ==
    /\ clientList \in QuietLists(LocalAddr, localUsername, PeerT, peerUsername)
    /\ peer \in {[NoPeer EXCEPT !.clientList = cl] :
                    cl \in QuietLists(PeerT, peerUsername, LocalAddr, localUsername)}
    /\ localAddress = LocalAddr
    /\ mainPc = "gui"
    /\ tickPc = "wait"
    /\ addrMissing = NoAddr
    /\ crashed = FALSE
    /\ last = NoLast
    /\ net = {}
    /\ threads = NoThreads

\* The substrate delivers a broadcast of T to this process; what this process
\* broadcasts in return is in flight to T.
QuietOnBroadcast(m) ==
    /\ m \in net
    /\ m.to = LocalAddr
    /\ OnBroadcast(PeerT, m.data, TRUE)
    /\ net' = (net \ {m}) \cup {[to |-> PeerT, data |-> last'.sent[i].data] :
                                    i \in DOMAIN last'.sent}
    /\ UNCHANGED <<threads, peer>>

\* FillMissingInfo in T's process, first half of a tick.
PeerTickFind ==
    /\ peer.tickPc = "wait"
    /\ \E r \in GetMissingUsername(peer.clientList) :
         peer' = [peer EXCEPT !.addrMissing = r.addr,
                              !.tickPc = IF r.ok THEN "found" ELSE "wait"]
    /\ UNCHANGED <<clientList, localAddress, mainPc, tickPc, addrMissing, crashed, last,
                   net, threads>>

\* FillMissingInfo in T's process, second half: the request is in flight to
\* this process.
PeerTickRequest ==
    /\ peer.tickPc = "found"
    /\ peer' = [peer EXCEPT !.addrMissing = NoAddr, !.tickPc = "wait"]
    /\ net' = net \cup {[to |-> LocalAddr,
                          data |-> Encode(Message(messageTypeUsernameReq,
                                                  StringOf(peer.addrMissing), EmptyMap, TRUE))]}
    /\ UNCHANGED <<clientList, localAddress, mainPc, tickPc, addrMissing, crashed, last,
                   threads>>

\* T's client list after Messenger.OnBroadcast in T's process for the bytes
\* data: a username list with entries is applied, nothing else changes it.
PeerAddUsernames(cl, data) ==
    LET d == Decode(data)
    IN  IF /\ d.err = ""
           /\ d.msg.Type = messageTypeUsernames
           /\ ~(d.msg.nilmap \/ Cardinality(DOMAIN d.msg.Usernames) = 0)
        THEN AddUsernames(cl, d.msg.Usernames)
        ELSE cl

\* T's substrate delivers a broadcast of this process to T's OnBroadcast.
QuietPeerReceive(m) ==
    /\ m \in net
    /\ m.to = PeerT
    /\ peer' = [peer EXCEPT !.clientList = PeerAddUsernames(@, m.data)]
    /\ net' = (net \ {m}) \cup {[to |-> LocalAddr, data |-> x] :
                                    x \in PeerOnBroadcast(peer.clientList, m.data)}
    /\ UNCHANGED <<clientList, localAddress, mainPc, tickPc, addrMissing, crashed, last,
                   threads>>

\* No membership event and no user input: the two ticker loops and the
\* deliveries of what they cause.
QuietNext ==
    \/ FairTickFind
    \/ FairTickRequest
    \/ PeerTickFind
    \/ PeerTickRequest
    \/ \E m \in net : QuietOnBroadcast(m)
    \/ \E m \in net : QuietPeerReceive(m)
    \/ FairReturn

QuietSpec == QuietInit /\ [][QuietNext]_vars

\* ------------------------------------------------- the ticker loop (fair)

\* The process is up and lists nobody yet.
TickInit ==
    /\ clientList = EmptyMap
    /\ localAddress = LocalAddr
    /\ mainPc = "gui"
    /\ tickPc = "wait"
    /\ addrMissing = NoAddr
    /\ crashed = FALSE
    /\ last = NoLast
    /\ net = {}
    /\ threads = NoThreads
    /\ peer = NoPeer

\* Username lists that peers broadcast while the loop runs.
TickInbound ==
    {Encode(Message(messageTypeUsernames, <<>>, [a \in {p} |-> "bob"], FALSE)) : p \in {PeerT, PeerU}}

\* Membership events and username lists arrive as they please; a broadcast of
\* the loop succeeds or fails as the substrate pleases.
TickNext ==
    \/ \E node \in Nodes, alive \in BOOLEAN : OnChange(node, alive) /\ UNCHANGED <<net, threads, peer>>
    \/ \E data \in TickInbound : OnBroadcast(PeerT, data, TRUE) /\ UNCHANGED <<net, threads, peer>>
    \/ TickFind /\ UNCHANGED <<net, threads, peer>>
    \/ \E ok \in BOOLEAN : TickRequest(ok) /\ UNCHANGED <<net, threads, peer>>
    \/ Return /\ UNCHANGED <<net, threads, peer>>

\* time.Tick fires every 15 seconds for the life of the process, the loop body
\* runs to its end, and a handler that was entered returns.  Nothing is
\* assumed about the events, the lists received or the success of a broadcast.
TickSpec ==
    /\ TickInit
    /\ [][TickNext]_vars
    /\ SF_vars(TickFind /\ UNCHANGED <<net, threads, peer>>)
    /\ SF_vars(\E ok \in BOOLEAN : TickRequest(ok) /\ UNCHANGED <<net, threads, peer>>)
    /\ SF_vars(Return /\ UNCHANGED <<net, threads, peer>>)

\* ------------------------------------------------- goroutines on the map

\* The goroutines of the process: smudge's, which call OnChange and
\* OnBroadcast; FillMissingInfo's; and the gui's main loop, which runs the
\* callbacks printClientList queued.  No lock, channel or other
\* synchronisation stands between them and the map.
RaceInit ==
    /\ clientList = EmptyMap
    /\ localAddress = LocalAddr
    /\ mainPc = "gui"
    /\ tickPc = "wait"
    /\ addrMissing = NoAddr
    /\ crashed = FALSE
    /\ last = NoLast
    /\ net = {}
    /\ threads = NoThreads
    /\ peer = NoPeer

\* printClientList's gui.Update: the redraw is queued for the gui's main loop.
Queue(n) == [threads EXCEPT !.queued = @ \/ n > 0]

\* An OnChange that waits until no goroutine is inside a range over the map.
RaceOnChange_Locked(node, alive) ==
    /\ ~threads.render /\ ~threads.scan
    /\ OnChange(node, alive)
    /\ threads' = Queue(last'.refresh)
    /\ UNCHANGED <<net, peer>>

\* OnChange on a goroutine of smudge: it writes the map whatever the other
\* goroutines are doing.
RaceOnChange(node, alive) ==
    /\ OnChange(node, alive)
    /\ threads' = Queue(last'.refresh)
    /\ UNCHANGED <<net, peer>>

\* OnBroadcast on a goroutine of smudge.
RaceOnBroadcast(data) ==
    /\ OnBroadcast(PeerT, data, TRUE)
    /\ threads' = Queue(last'.refresh)
    /\ UNCHANGED <<net, peer>>

\* The gui's main loop takes the queued callback and enters
\* `for _, client := range cl`.
RenderBegin ==
    /\ ~crashed
    /\ threads.queued /\ ~threads.render
    /\ threads' = [threads EXCEPT !.queued = FALSE, !.render = TRUE]
    /\ UNCHANGED <<clientList, localAddress, mainPc, tickPc, addrMissing, crashed, last, net, peer>>

\* The callback has printed every client.
RenderEnd ==
    /\ ~crashed
    /\ threads.render
    /\ threads' = [threads EXCEPT !.render = FALSE]
    /\ UNCHANGED <<clientList, localAddress, mainPc, tickPc, addrMissing, crashed, last, net, peer>>

\* The ticker fired: FillMissingInfo enters GetMissingUsername's range loop.
ScanBegin ==
    /\ ~crashed
    /\ tickPc = "wait" /\ ~threads.scan
    /\ threads' = [threads EXCEPT !.scan = TRUE]
    /\ UNCHANGED <<clientList, localAddress, mainPc, tickPc, addrMissing, crashed, last, net, peer>>

\* GetMissingUsername returns.
RaceTickFind ==
    /\ threads.scan
    /\ TickFind
    /\ threads' = [threads EXCEPT !.scan = FALSE]
    /\ UNCHANGED <<net, peer>>

\* A handler has written the map and not yet returned while another goroutine
\* is inside a range over it: a data race.  The Go runtime may notice it and
\* stop the process ("fatal error: concurrent map iteration and map write").
FatalRace ==
    /\ ~crashed
    /\ threads.render \/ threads.scan
    /\ last.op = "OnChange" \/ (last.op = "OnBroadcast" /\ last.applied # <<>>)
    /\ crashed' = TRUE
    /\ UNCHANGED <<clientList, localAddress, mainPc, tickPc, addrMissing, last, net, threads, peer>>

RaceNext ==
    \/ \E node \in Nodes, alive \in BOOLEAN : RaceOnChange(node, alive)
    \/ \E data \in TickInbound : RaceOnBroadcast(data)
    \/ RenderBegin
    \/ RenderEnd
    \/ ScanBegin
    \/ RaceTickFind
    \/ \E ok \in BOOLEAN : TickRequest(ok) /\ UNCHANGED <<net, threads, peer>>
    \/ FatalRace
    \/ Return /\ UNCHANGED <<net, threads, peer>>

RaceSpec == RaceInit /\ [][RaceNext]_vars

\* ================================================================ claims

\* The set of entries of cl without a username.
Incomplete(cl) == {a \in DOMAIN cl : cl[a].username = ""}

\* C1: whenever the local address is a key of the client list (it was reported
\* alive and not since reported dead), its entry carries localUsername.
C1_LocalEntryHasLocalName ==
    LocalAddr \in DOMAIN clientList => clientList[LocalAddr].username = localUsername

\* C2: T stays listed, handles what it receives, broadcasts are delivered and
\* ticks are fair: eventually this process knows T's username, also when
\* another entry without a username is listed whose owner never answers.
C2_Converges == <>(PeerT \in DOMAIN clientList /\ clientList[PeerT].username # "")

\* C3: the key set changes only through membership events: OnChange(alive)
\* adds exactly the node's address, OnChange(dead) removes exactly it, and no
\* other handler (broadcasts of any kind, ticks, sends) adds or removes a key.
C3_KeysChangeOnlyByOnChange ==
    /\ last.op \notin {"none", "OnChange"} => DOMAIN clientList = DOMAIN last.pre
    /\ (last.op = "OnChange" /\ last.alive)
          => DOMAIN clientList = (DOMAIN last.pre) \cup {last.node.address}
    /\ (last.op = "OnChange" /\ ~last.alive)
          => DOMAIN clientList = (DOMAIN last.pre) \ {last.node.address}

\* C3 witness: a received username list naming an address that is no key has
\* been applied.
C3_Witness ==
    /\ last.op = "OnBroadcast"
    /\ last.applied # <<>>
    /\ \E a \in DOMAIN last.applied[1] : a \notin DOMAIN last.pre
    /\ last.pre # EmptyMap

\* C4: AddUsernames neither inserts nor removes keys, whatever the list names.
C4_AddUsernamesKeepsKeys ==
    last.op = "AddUsernames" => DOMAIN clientList = DOMAIN last.pre

\* C4 witness: AddUsernames ran with a list naming an absent address and a
\* present one.
C4_Witness ==
    /\ last.op = "AddUsernames"
    /\ \E a \in DOMAIN last.usernames : a \notin DOMAIN last.pre
    /\ \E a \in DOMAIN last.usernames : a \in DOMAIN last.pre

\* C5: after AddUsernames(B) with B non-empty, every address in both the list
\* and B has username B[address], every other entry keeps its username, every
\* entry keeps its node, and the returned error is nil.
C5_AddUsernamesOverwrites ==
    (last.op = "AddUsernames" /\ DOMAIN last.usernames # {}) =>
        /\ ~last.err
        /\ \A a \in DOMAIN last.pre :
              /\ a \in DOMAIN clientList
              /\ clientList[a].node = last.pre[a].node
              /\ clientList[a].username =
                    IF a \in DOMAIN last.usernames THEN last.usernames[a]
                    ELSE last.pre[a].username

\* C5 witness: a known username was replaced by a different non-empty one while
\* another entry was not named.
C5_Witness ==
    /\ last.op = "AddUsernames"
    /\ \E a \in (DOMAIN last.pre) \cap (DOMAIN last.usernames) :
          /\ last.pre[a].username # ""
          /\ last.usernames[a] # ""
          /\ last.usernames[a] # last.pre[a].username
    /\ \E a \in DOMAIN last.pre : a \notin DOMAIN last.usernames

\* C6 as stated: AddUsernames returns an error exactly when the list is nil or
\* empty, and then leaves the client list unchanged.
C6_ErrorIffEmpty ==
    last.op = "AddUsernames" =>
        /\ last.err <=> (last.nilmap \/ DOMAIN last.usernames = {})
        /\ last.err => clientList = last.pre

\* C6 amended: AddUsernames never returns an error; with a nil or empty list
\* it leaves the client list unchanged.
C6_NeverErrs ==
    last.op = "AddUsernames" =>
        /\ ~last.err
        /\ (last.nilmap \/ DOMAIN last.usernames = {}) => clientList = last.pre

\* C6 witness: AddUsernames ran with a nil list on a non-empty client list.
C6_Witness ==
    last.op = "AddUsernames" /\ last.nilmap /\ last.pre # EmptyMap

\* C7: OnChange(alive) for a node whose address is no key adds the address
\* with that node; the username is empty (GetName gives the address) unless the
\* address is localAddress, and then it is localUsername; all other entries
\* are unchanged.
C7_AddNewClient ==
    (last.op = "OnChange" /\ last.alive /\ last.node.address \notin DOMAIN last.pre) =>
        LET a == last.node.address
        IN  /\ DOMAIN clientList = (DOMAIN last.pre) \cup {a}
            /\ a \in DOMAIN clientList
            /\ clientList[a].node = last.node
            /\ clientList[a].username = (IF a = localAddress THEN localUsername ELSE "")
            /\ GetName(clientList[a]) =
                  [panic |-> FALSE, name |-> IF a = localAddress THEN localUsername ELSE a]
            /\ \A b \in DOMAIN last.pre : b \in DOMAIN clientList /\ clientList[b] = last.pre[b]

\* C7 witness: the local node was added to a list that held another client.
C7_Witness ==
    /\ last.op = "OnChange" /\ last.alive
    /\ last.node.address \notin DOMAIN last.pre
    /\ last.node.address = localAddress
    /\ last.pre # EmptyMap

\* C8: OnChange(dead) for an absent address changes nothing; for a present one
\* it removes exactly that entry; the process does not fail; and removing the
\* same node again changes nothing more.
C8_RemoveIdempotent ==
    (last.op = "OnChange" /\ ~last.alive) =>
        LET a == last.node.address
        IN  /\ ~crashed
            /\ a \notin DOMAIN last.pre => clientList = last.pre
            /\ DOMAIN clientList = (DOMAIN last.pre) \ {a}
            /\ \A b \in DOMAIN clientList : b \in DOMAIN last.pre /\ clientList[b] = last.pre[b]
            /\ RemoveClient(clientList, last.node) = clientList

\* C8 witness: a dead event for an absent address arrived while other clients
\* were listed.
C8_Witness ==
    /\ last.op = "OnChange" /\ ~last.alive
    /\ last.node.address \notin DOMAIN last.pre
    /\ last.pre # EmptyMap

\* C9: getUsernameMap returns localAddress mapped to localUsername whatever
\* the list stores for it, every other listed address with a non-empty username
\* mapped to that username, and nothing else; the client list is not modified.
C9_UsernameMap ==
    last.op = "getUsernameMap" =>
        LET m == last.ret
        IN  /\ localAddress \in DOMAIN m
            /\ m[localAddress] = localUsername
            /\ \A a \in DOMAIN clientList :
                  (a # localAddress /\ clientList[a].username # "")
                      => (a \in DOMAIN m /\ m[a] = clientList[a].username)
            /\ \A a \in DOMAIN m :
                  a = localAddress \/ (a \in DOMAIN clientList /\ clientList[a].username # "")
            /\ clientList = last.pre

\* C9 witness: the map was built from a list whose local entry has no username,
\* with one other entry known and one unknown.
C9_Witness ==
    /\ last.op = "getUsernameMap"
    /\ localAddress \in DOMAIN clientList
    /\ clientList[localAddress].username = ""
    /\ \E a \in DOMAIN clientList : a # localAddress /\ clientList[a].username = ""
    /\ \E a \in DOMAIN clientList : a # localAddress /\ clientList[a].username # ""

\* C10: GetMissingUsername returns ("", false) exactly when no entry lacks a
\* username (also on the empty list); a returned address is a key without a
\* username; and every entry without a username is a possible result.
C10_MissingUsername ==
    last.op = "GetMissingUsername" =>
        /\ ~last.ok <=> Incomplete(clientList) = {}
        /\ ~last.ok => last.addr = NoAddr
        /\ last.ok => last.addr \in Incomplete(clientList)
        /\ \A a \in Incomplete(clientList) :
              [addr |-> a, ok |-> TRUE] \in GetMissingUsername(clientList)

\* C10 witness: with two entries lacking a username, each one has been
\* returned: here "B" while "A" is also missing.
C10_Witness ==
    /\ last.op = "GetMissingUsername"
    /\ last.ok
    /\ last.addr = "B"
    /\ "A" \in Incomplete(clientList)

\* C11: GetName of a client that has a node returns the username when that is
\* not empty, and the address of the node otherwise.
C11_GetName ==
    (last.client.node # NilNode /\ last.op \in {"GetName", "panic"}) =>
        /\ last.op = "GetName"
        /\ ~crashed
        /\ last.name = (IF last.client.username # "" THEN last.client.username
                        ELSE last.client.node.address)
        /\ clientList = last.pre

\* C11 witness: GetName ran on a client with a username different from its
\* address.
C11_Witness ==
    /\ last.op = "GetName"
    /\ last.client.node # NilNode
    /\ last.client.username = "bob"

\* The decoded message of the broadcast the last handler received.
LastMsg == Decode(last.data).msg

\* The last handler was OnBroadcast for a decodable message of the given type,
\* whether it returned or panicked.
Received(type) ==
    /\ last.op \in {"OnBroadcast", "panic"}
    /\ Decode(last.data).err = ""
    /\ LastMsg.Type = type

\* C12: every inbound chat message appends exactly one line (text, name of the
\* sender) to the transcript, leaves the client list unchanged and does not
\* crash; for a sender that is no key of the list the name is the sender's
\* address.
C12_ChatAppendsLine ==
    Received(messageTypeChat) =>
        /\ ~crashed
        /\ last.op = "OnBroadcast"
        /\ clientList = last.pre
        /\ Len(last.lines) = 1
        /\ last.lines[1].text = LastMsg.Body
        /\ last.lines[1].sender =
              (IF last.origin \in DOMAIN last.pre /\ last.pre[last.origin].username # ""
               THEN last.pre[last.origin].username ELSE last.origin)

\* C13: a username request whose Body equals localAddress makes exactly one
\* broadcast, a messageTypeUsernames message whose Usernames is getUsernameMap
\* of the client list at that moment; the client list is unchanged.
C13_RequestForUsAnswered ==
    (Received(messageTypeUsernameReq) /\ LastMsg.Body = StringOf(localAddress)) =>
        /\ ~crashed
        /\ clientList = last.pre
        /\ last.lines = <<>>
        /\ Len(last.sent) = 1
        /\ Decode(last.sent[1].data) =
              [err |-> "",
               msg |-> Message(messageTypeUsernames, <<>>,
                               getUsernameMap(last.pre, localAddress, localUsername), FALSE)]

\* C13 witness: a request naming this process arrived while it listed a client
\* with a known username and one without.
C13_Witness ==
    /\ Received(messageTypeUsernameReq)
    /\ localAddress = LocalAddr
    /\ LastMsg.Body = <<LocalAddr>>
    /\ \E a \in DOMAIN last.pre : a # LocalAddr /\ last.pre[a].username # ""
    /\ \E a \in DOMAIN last.pre : last.pre[a].username = ""

\* C14: a username request whose Body is not localAddress makes no broadcast,
\* appends nothing to the transcript and leaves the client list unchanged.
C14_RequestForOtherIgnored ==
    (Received(messageTypeUsernameReq) /\ LastMsg.Body # StringOf(localAddress)) =>
        /\ ~crashed
        /\ clientList = last.pre
        /\ last.lines = <<>>
        /\ last.sent = <<>>
        /\ last.refresh = 0

\* C14 witness: a request naming the listed peer "A" arrived at the running
\* process.
C14_Witness ==
    /\ Received(messageTypeUsernameReq)
    /\ localAddress = LocalAddr
    /\ LastMsg.Body = <<"A">>
    /\ "A" \in DOMAIN last.pre

\* C15: a received username list that is nil or empty is rejected (client list
\* unchanged, AddUsernames not called, no roster refresh, no broadcast); a
\* non-empty one is passed to AddUsernames exactly once.
C15_EmptyListRejected ==
    Received(messageTypeUsernames) =>
        /\ ~crashed
        /\ last.sent = <<>>
        /\ last.lines = <<>>
        /\ IF LastMsg.nilmap \/ DOMAIN LastMsg.Usernames = {}
           THEN /\ clientList = last.pre
                /\ last.applied = <<>>
                /\ last.refresh = 0
           ELSE /\ last.applied = <<LastMsg.Usernames>>
                /\ clientList = AddUsernames(last.pre, LastMsg.Usernames)

\* C15 witness: an empty (not nil) username list arrived at the running
\* process, which lists a client without a username.
C15_Witness ==
    /\ Received(messageTypeUsernames)
    /\ ~LastMsg.nilmap
    /\ DOMAIN LastMsg.Usernames = {}
    /\ mainPc = "gui"
    /\ Incomplete(last.pre) # {}

\* C16: when Decode of the received bytes fails, the message is logged and
\* dropped: no case of the switch runs, the client list is unchanged, nothing
\* is broadcast or appended to the transcript, and the process does not crash.
C16_DecodeFailureDropped ==
    (last.op \in {"OnBroadcast", "panic"} /\ Decode(last.data).err # "") =>
        /\ ~crashed
        /\ last.op = "OnBroadcast"
        /\ last.decodeErr = Decode(last.data).err
        /\ clientList = last.pre
        /\ last.applied = <<>>
        /\ last.sent = <<>>
        /\ last.lines = <<>>
        /\ last.refresh = 0

\* C16 witness: bytes of a username list for the listed, still nameless peer
\* "A" arrived with a damaged zlib header.
C16_Witness ==
    /\ last.op = "OnBroadcast"
    /\ last.decodeErr = "decompress"
    /\ last.data.obj.Type = messageTypeUsernames
    /\ "A" \in Incomplete(last.pre)

\* C17: a tick whose GetMissingUsername finds no client without username
\* broadcasts nothing and ends; one that finds a client goes on to broadcast
\* exactly one messageTypeUsernameReq message whose Body is the address found;
\* neither step changes the client list.
C17_TickRequestsOne ==
    [][/\ (last.op = "none" /\ last'.op = "GetMissingUsername") =>
            /\ clientList' = clientList
            /\ last'.sent = <<>>
            /\ last'.ok <=> Incomplete(clientList) # {}
            /\ ~last'.ok => (tickPc' = "wait" /\ addrMissing' = NoAddr)
            /\ last'.ok => (/\ tickPc' = "found"
                            /\ addrMissing' = last'.addr
                            /\ addrMissing' \in Incomplete(clientList))
       /\ (last.op = "none" /\ last'.op = "RequestUsernameList") =>
            /\ clientList' = clientList
            /\ tickPc = "found" /\ tickPc' = "wait"
            /\ addrMissing \in Addr
            /\ Len(last'.sent) = 1
            /\ Decode(last'.sent[1].data) =
                  [err |-> "",
                   msg |-> Message(messageTypeUsernameReq, <<addrMissing>>, EmptyMap, TRUE)]
       /\ (tickPc = "wait" /\ tickPc' = "found") => last'.op = "GetMissingUsername"
       /\ (tickPc = "found" /\ tickPc' = "found") => addrMissing' = addrMissing
      ]_vars

\* C17 witness: the request for "B" was broadcast while "A" lacked a username
\* too.
C17_Witness ==
    /\ last.op = "RequestUsernameList"
    /\ last.addr = "B"
    /\ Len(last.sent) = 1
    /\ "A" \in Incomplete(last.pre)

\* The request of the tick was broadcast and smudge.BroadcastBytes failed.
RequestFailed == last.op = "RequestUsernameList" /\ last.err

\* C18: a failed broadcast of a tick is only logged: the tick made that one
\* attempt and no other, the loop goes on waiting for the next tick, and for
\* as long as some client lacks a username a later tick looks again and
\* issues a request again.
C18_FailureOnlyLogged ==
    /\ [](RequestFailed =>
            /\ ~crashed
            /\ Len(last.sent) = 1
            /\ tickPc = "wait"
            /\ clientList = last.pre)
    /\ RequestFailed ~> (Incomplete(clientList) = {} \/ (last.op = "GetMissingUsername" /\ last.ok))
    /\ (last.op = "GetMissingUsername" /\ last.ok) ~> (last.op = "RequestUsernameList")

\* C18 witness: the request for "A" failed while "A" and "B" lack a username.
C18_Witness ==
    /\ RequestFailed
    /\ last.addr = "A"
    /\ {"A", "B"} \subseteq Incomplete(clientList)

\* The text the user entered holds nothing but white space.
Blank(text) == \A i \in 1..Len(text) : text[i] = Space

\* The text between the first and the last token that is not white space.
Trimmed(text) ==
    LET solid == {i \in 1..Len(text) : text[i] # Space}
    IN  IF solid = {} THEN <<>>
        ELSE LET first == CHOOSE i \in solid : \A j \in solid : i <= j
                 final == CHOOSE i \in solid : \A j \in solid : j <= i
             IN  SubSeq(text, first, final)

\* C19: SendMessage with a text that is empty after trimming does nothing: no
\* transcript line, no broadcast, a nil error.
C19_BlankSendIsNoOp ==
    (last.op = "SendMessage" /\ Blank(last.text)) =>
        /\ ~crashed
        /\ last.lines = <<>>
        /\ last.sent = <<>>
        /\ last.order = <<>>
        /\ ~last.err
        /\ clientList = last.pre

\* C19 witness: the user entered white space only.
C19_Witness ==
    /\ last.op = "SendMessage"
    /\ last.text # <<>>
    /\ Blank(last.text)

\* C20: SendMessage with a text that is not empty after trimming first appends
\* the line (trimmed text, localUsername) to the transcript and then makes
\* exactly one broadcast, a messageTypeChat message whose Body is the trimmed
\* text; the line is there also when the broadcast fails, and the error
\* returned is that of the broadcast.
C20_SendEchoesThenBroadcasts ==
    (last.op = "SendMessage" /\ ~Blank(last.text)) =>
        /\ ~crashed
        /\ last.lines = <<[text |-> Trimmed(last.text), sender |-> localUsername]>>
        /\ Len(last.sent) = 1
        /\ Decode(last.sent[1].data) =
              [err |-> "",
               msg |-> Message(messageTypeChat, Trimmed(last.text), EmptyMap, TRUE)]
        /\ last.order = <<"printChatMessage", "BroadcastBytes">>
        /\ last.err = ~last.sent[1].ok
        /\ clientList = last.pre

\* C20 witness: a text with white space around it was sent and the broadcast
\* failed.
C20_Witness ==
    /\ last.op = "SendMessage"
    /\ ~Blank(last.text)
    /\ last.text # Trimmed(last.text)
    /\ last.err
    /\ Len(last.lines) = 1

\* C21: when smudge.BroadcastBytes fails in SendMessage, SendMessage returns
\* an error to its caller; it returns nil when nothing failed.
C21_SendFailureReturned ==
    last.op = "SendMessage" =>
        (last.err <=> \E i \in 1..Len(last.sent) : ~last.sent[i].ok)

\* C21 witness: the broadcast of a chat message failed.
C21_Witness ==
    /\ last.op = "SendMessage"
    /\ Len(last.sent) = 1
    /\ ~last.sent[1].ok
    /\ Decode(last.sent[1].data).msg.Type = messageTypeChat

\* No string of the message holds a byte that is not valid UTF-8.
ValidText(m) ==
    /\ \A i \in 1..Len(m.Body) : m.Body[i] # Invalid
    /\ \A a \in DOMAIN m.Usernames : m.Usernames[a] # Invalid

\* C22: for every message of type chat, usernames or username request whose
\* strings are valid text, Decode(Encode(m)) succeeds and yields the same
\* Type, the same Body and the same Usernames.
C22_RoundTrip ==
    (last.op = "RoundTrip" /\ ValidText(last.msg)) =>
        /\ last.decodeErr = ""
        /\ last.out.Type = last.msg.Type
        /\ last.out.Body = last.msg.Body
        /\ last.out.Usernames = last.msg.Usernames
        /\ last.out.nilmap = last.msg.nilmap

\* C22 witness: a message whose Body needs a JSON escape made the round trip
\* with a username map.
C22_Witness ==
    /\ last.op = "RoundTrip"
    /\ ValidText(last.msg)
    /\ \E i \in 1..Len(last.msg.Body) : last.msg.Body[i] = Lt
    /\ last.data.obj.Body # last.msg.Body
    /\ DOMAIN last.msg.Usernames # {}

\* C24: Decode returns one error for bytes that fail to decompress (header,
\* deflate body or checksum damaged), another one for decompressed text that
\* is not a well-formed message, and nil otherwise; it never panics.
C24_DistinctDecodeErrors ==
    last.op \in {"Decode", "panic"} =>
        /\ ~crashed
        /\ last.op = "Decode"
        /\ last.decodeErr =
              (IF ~last.data.hdr \/ ~last.data.stream \/ ~last.data.sum THEN "decompress"
               ELSE IF ~last.data.wf THEN "decode"
               ELSE "")

\* C26: every membership event (alive, and dead also for an absent peer) and
\* every call of AddUsernames (also one that changes nothing) calls
\* printClientList exactly once, with the list as it is after the change;
\* ticks, username requests and chat messages call it not at all.
C26_RefreshAfterMutation ==
    /\ last.op = "OnChange" => (last.notify = 1 /\ last.shown = clientList)
    /\ last.op = "AddUsernames" => (last.notify = 1 /\ last.shown = clientList)
    /\ (last.op = "OnBroadcast" /\ last.applied # <<>>) =>
            (last.notify = 1 /\ last.shown = clientList)
    /\ (last.op = "OnBroadcast" /\ last.applied = <<>>) =>
            (last.notify = 0 /\ last.refresh = 0)
    /\ last.op \in {"GetMissingUsername", "RequestUsernameList", "panic"} =>
            (last.notify = 0 /\ last.refresh = 0)
    /\ last.refresh = (IF mainPc = "gui" \/ last.op = "runGUI" THEN last.notify ELSE 0)

\* C26 witness: with the gui running, a dead event for an absent peer called
\* printClientList although the list, which is not empty, did not change.
C26_Witness ==
    /\ last.op = "OnChange" /\ ~last.alive
    /\ mainPc = "gui"
    /\ last.notify = 1 /\ last.refresh = 1
    /\ clientList = last.pre
    /\ last.shown # EmptyMap

\* C25: no mutual exclusion guards the map: whenever smudge can deliver a
\* membership event, OnChange writes the map, also while the gui's main loop
\* or FillMissingInfo is inside a range over it.
C25_NoMutualExclusion ==
    Idle => \A node \in Nodes : ENABLED RaceOnChange(node, TRUE)

\* C25 witness: OnChange has inserted or deleted an entry while the gui's
\* main loop is inside printClientList's range and FillMissingInfo inside
\* GetMissingUsername's.
C25_Witness ==
    /\ last.op = "OnChange"
    /\ clientList # last.pre
    /\ threads.render
    /\ threads.scan

\* C27: OnChange(alive) for a node whose address is already a key replaces the
\* entry: it holds the node of the event, the stored username is dropped (the
\* username is empty, or localUsername when the address is localAddress), the
\* key set and every other entry are unchanged.
C27_ReplaceExisting ==
    (last.op = "OnChange" /\ last.alive /\ last.node.address \in DOMAIN last.pre) =>
        LET a == last.node.address
        IN  /\ DOMAIN clientList = DOMAIN last.pre
            /\ clientList[a].node = last.node
            /\ clientList[a].username = (IF a = localAddress THEN localUsername ELSE "")
            /\ \A b \in (DOMAIN last.pre) \ {a} : clientList[b] = last.pre[b]

\* C27 witness: a peer listed as "bob" was reported alive again, with a new
\* node, while another client was listed.
C27_Witness ==
    /\ last.op = "OnChange" /\ last.alive
    /\ last.node.address \in DOMAIN last.pre
    /\ last.node.address # localAddress
    /\ last.pre[last.node.address].username = "bob"
    /\ last.pre[last.node.address].node # last.node
    /\ \E b \in DOMAIN last.pre : b # last.node.address

\* C28: last write wins.  In every step the username of each listed address
\* is: the insertion value if the step is OnChange(alive) for that address;
\* else the value a username list applied in the step carries for it; else
\* what it was before the step.  So each username is the one of the latest
\* applied list naming the address since its insertion, or the insertion
\* value; who sent a list and in which order lists were made plays no part.
C28_LastWriteWins ==
    [][\A a \in DOMAIN clientList' :
          clientList'[a].username =
             (IF last'.op = "OnChange" /\ last'.alive /\ last'.node.address = a
              THEN (IF a = localAddress THEN localUsername ELSE "")
              ELSE IF last'.op = "OnBroadcast" /\ last'.applied # <<>>
                      /\ a \in DOMAIN last'.applied[1]
              THEN last'.applied[1][a]
              ELSE IF a \in DOMAIN clientList THEN clientList[a].username
              ELSE "no entry")
      ]_vars

\* C28 witness: a received list gave the entry of "A", known as "bob",
\* the username "carol", and gave the entry of this process an empty one.
C28_Witness ==
    /\ last.op = "OnBroadcast"
    /\ last.applied # <<>>
    /\ "A" \in DOMAIN last.pre /\ last.pre["A"].username = "bob"
    /\ "A" \in DOMAIN clientList /\ clientList["A"].username = "carol"
    /\ LocalAddr \in DOMAIN clientList /\ clientList[LocalAddr].username = ""
    /\ LocalAddr \in DOMAIN last.applied[1]

\* The entry of a has a username before the step and an empty one after it.
Forgotten(a) ==
    /\ a \in DOMAIN clientList /\ clientList[a].username # ""
    /\ a \in DOMAIN clientList' /\ clientList'[a].username = ""

\* C29 as stated: an entry that has a username keeps having one until it is
\* removed; no applied list and no repeated alive event empties it.
C29_CompletenessMonotone ==
    [][\A a \in Addr : ~Forgotten(a)]_vars

\* C29 amended: an entry that has a username keeps having one until it is
\* removed, replaced by a repeated alive event for its address (not the local
\* one), or named with an empty username by an applied list; no other step
\* empties it.
C29_ForgottenOnlyByOverwrite ==
    [][\A a \in Addr :
          Forgotten(a) =>
             \/ /\ last'.op = "OnChange" /\ last'.alive
                /\ last'.node.address = a /\ a # localAddress
             \/ /\ last'.op = "OnBroadcast" /\ last'.applied # <<>>
                /\ a \in DOMAIN last'.applied[1]
                /\ last'.applied[1][a] = ""
      ]_vars

\* C29 witness: a list that does not name "A" was applied and changed another
\* entry; "A" is still known as "bob".
C29_Witness ==
    /\ last.op = "OnBroadcast"
    /\ last.applied # <<>>
    /\ "A" \notin DOMAIN last.applied[1]
    /\ "A" \in DOMAIN last.pre /\ last.pre["A"].username = "bob"
    /\ "A" \in DOMAIN clientList /\ clientList["A"].username = "bob"
    /\ clientList # last.pre

\* C30: one field is read per message type: a chat message that also carries
\* usernames does not change the client list; a username list that also
\* carries a Body appends nothing to the transcript and broadcasts nothing;
\* a username request that also carries usernames does not change the client
\* list.
C30_OneFieldPerType ==
    /\ (Received(messageTypeChat) /\ DOMAIN LastMsg.Usernames # {}) =>
            (clientList = last.pre /\ last.applied = <<>>)
    /\ (Received(messageTypeUsernames) /\ LastMsg.Body # <<>>) =>
            (last.lines = <<>> /\ last.sent = <<>>)
    /\ (Received(messageTypeUsernameReq) /\ DOMAIN LastMsg.Usernames # {}) =>
            (clientList = last.pre /\ last.applied = <<>>)

\* C30 witness: the listed peer "A", whose username is not known, sent a chat
\* message that carries the username "bob" for "A"; the line was printed.
C30_Witness ==
    /\ Received(messageTypeChat)
    /\ "A" \in DOMAIN LastMsg.Usernames /\ LastMsg.Usernames["A"] = "bob"
    /\ last.origin = "A"
    /\ "A" \in DOMAIN last.pre /\ last.pre["A"].username = ""
    /\ Len(last.lines) = 1


\* C31 (as claimed): when an IdentityRequest is broadcast, the address it names
\* is still a key of the Directory and still has an empty username, as if no
\* membership event or applied batch could fall between GetMissingUsername and
\* RequestUsernameList.
C31_TickAtomic ==
    last.op = "RequestUsernameList" => last.addr \in Incomplete(last.pre)

\* C31 (amended): the address an IdentityRequest names was a key with an empty
\* username when GetMissingUsername returned it; the steps of the other
\* goroutines that fall between the query and the broadcast leave the address
\* found untouched, and the request is broadcast for it whatever has become of
\* its entry in the meantime.
C31_IncompleteWhenQueried ==
    [][/\ (last'.op = "GetMissingUsername" /\ last'.ok /\ last.op = "none") =>
            /\ last'.addr \in Incomplete(clientList)
            /\ addrMissing' = last'.addr
       /\ (tickPc = "found" /\ last'.op # "RequestUsernameList") =>
            /\ tickPc' = "found"
            /\ addrMissing' = addrMissing
       /\ (last'.op = "RequestUsernameList" /\ last.op = "none") =>
            /\ last'.addr = addrMissing
            /\ last'.pre = clientList
            /\ Len(last'.sent) = 1
            /\ Decode(last'.sent[1].data).msg.Body = StringOf(addrMissing)
            /\ Decode(last'.sent[1].data).msg.Type = messageTypeUsernameReq
      ]_vars

\* C31 witness: a request was broadcast for an address whose entry was removed
\* or given a username between the query and the broadcast.
C31_Witness ==
    /\ last.op = "RequestUsernameList"
    /\ Len(last.sent) = 1
    /\ last.addr \notin Incomplete(last.pre)


\* Every entry of both processes has a username.
AllComplete == Incomplete(clientList) = {} /\ Incomplete(peer.clientList) = {}

\* A username request is on its way to the process it names.
RequestInFlight ==
    \E m \in net : /\ Decode(m.data).err = ""
                    /\ Decode(m.data).msg.Type = messageTypeUsernameReq

\* C32 (as claimed): once every entry of every process has a username, with
\* no membership event and no user input, no process broadcasts a further
\* username request or username list.
C32_Quiescence == [][AllComplete => net' \subseteq net]_vars

\* Every entry is complete, and no request is pending: none is in flight, and
\* no ticker loop is between its query and its broadcast.
Quiet == AllComplete /\ ~RequestInFlight /\ tickPc = "wait" /\ peer.tickPc = "wait"

\* C32 (amended): once every entry of every process has a username and no
\* request is pending, with no membership event and no user input, no process
\* broadcasts a further username request or username list, and that stays so.
C32_QuietOnceDrained == [][Quiet => (net' \subseteq net /\ Quiet')]_vars

\* C32 witness: the processes have exchanged broadcasts, everything is
\* complete while a username list is still on its way, and a tick has just
\* found nothing to ask for.
C32_Witness ==
    /\ Quiet
    /\ net # {}
    /\ last.op = "GetMissingUsername" /\ ~last.ok


\* C33: the username list broadcast in answer to a username request is never
\* empty: it decodes without error to a list that has this process's
\* localAddress (its own address whenever the request names an address) with
\* its localUsername, so the guard of the usernames case in the receiving
\* process (nil map or no entries) does not reject it.
C33_ReplyNeverEmpty ==
    (Received(messageTypeUsernameReq) /\ last.sent # <<>>) =>
        LET reply == Decode(last.sent[1].data)
        IN  /\ Len(last.sent) = 1
            /\ reply.err = ""
            /\ reply.msg.Type = messageTypeUsernames
            /\ ~(reply.msg.nilmap \/ Cardinality(DOMAIN reply.msg.Usernames) = 0)
            /\ localAddress \in DOMAIN reply.msg.Usernames
            /\ reply.msg.Usernames[localAddress] = localUsername
            /\ LastMsg.Body # <<>> => LocalAddr \in DOMAIN reply.msg.Usernames
            /\ PeerAddUsernames(last.pre, last.sent[1].data) =
                   AddUsernames(last.pre, reply.msg.Usernames)

\* C33 witness: a request that names this process was answered while the
\* client list held no username at all: the answer has the one entry of this
\* process.
C33_Witness ==
    /\ Received(messageTypeUsernameReq)
    /\ last.sent # <<>>
    /\ localAddress = LocalAddr
    /\ \A a \in DOMAIN last.pre : last.pre[a].username = ""
    /\ DOMAIN Decode(last.sent[1].data).msg.Usernames = {LocalAddr}


\* C34 (as claimed): localAddress has been assigned whenever a membership
\* event or an inbound broadcast is handled, so AddClient and the request case
\* never compare an address with the unset localAddress.
C34_LocalAddressSetFirst ==
    last.op \in {"OnChange", "OnBroadcast", "panic"} => localAddress # NoAddr


\* The bytes SendMessage broadcasts for the texts the user can enter.
OwnChatBytes ==
    {Encode(Message(messageTypeChat, TrimSpace(text), EmptyMap, TRUE)) :
        text \in {t \in UserTexts : TrimSpace(t) # <<>>}}

\* C35 (as claimed): a chat message this process sent is in its transcript
\* exactly once, SendMessage having appended it: when the substrate delivers
\* the process's own chat broadcast back to OnBroadcast, no further line is
\* appended.  Only a process whose gui runs has sent a chat message.
C35_OwnChatShownOnce ==
    (/\ Received(messageTypeChat)
     /\ last.origin = LocalAddr
     /\ last.data \in OwnChatBytes
     /\ mainPc = "gui") =>
        last.lines = <<>>


\* C36: a broadcast that decodes without error and whose Type is none of
\* messageTypeChat, messageTypeUsernames and messageTypeUsernameReq (0 when the
\* type field is missing, or a number past the last constant) has no effect:
\* the client list is unchanged, nothing is broadcast, no line is appended, no
\* list is applied, the roster is not refreshed and the process does not crash.
C36_UnknownTypeIgnored ==
    (/\ last.op \in {"OnBroadcast", "panic"}
     /\ Decode(last.data).err = ""
     /\ LastMsg.Type \notin {messageTypeChat, messageTypeUsernames, messageTypeUsernameReq}) =>
        /\ ~crashed
        /\ last.op = "OnBroadcast"
        /\ clientList = last.pre
        /\ last.sent = <<>>
        /\ last.lines = <<>>
        /\ last.applied = <<>>
        /\ last.notify = 0
        /\ last.refresh = 0

\* C36 witness: a message of an unknown type that carries the local address
\* as Body and a username for the listed, still nameless peer "A" arrived at
\* the running gui.
C36_Witness ==
    /\ last.op = "OnBroadcast"
    /\ Decode(last.data).err = ""
    /\ LastMsg.Type = messageTypeUsernameReq + 1
    /\ LastMsg.Body = <<LocalAddr>>
    /\ "A" \in DOMAIN LastMsg.Usernames
    /\ "A" \in DOMAIN last.pre /\ last.pre["A"].username = ""
    /\ localAddress = LocalAddr
    /\ mainPc = "gui"

====
